---- MODULE Spec2Model ----
(***************************************************************************)
(* The hash-tree directory of assets/code/htree_benchmark.c (the same      *)
(* structures and insert path as assets/code/htree_implementation.c, plus  *)
(* the allocation checks and find_file).                                   *)
(*                                                                         *)
(* VARIABLES: dir is the struct htree_directory, crashed says that the     *)
(* process has died on a NULL dereference, calls counts the insert_file    *)
(* calls, log lists the inserts that stored a record, last is the last     *)
(* call made and what it returned.                                         *)
(*                                                                         *)
(* The binary-tree directory of assets/code/binary_tree_implementation.c   *)
(* is modelled on the same variables under SpecBtree: dir is then the      *)
(* struct btree_directory together with the nodes allocated so far.        *)
(***************************************************************************)
EXTENDS Integers, Sequences, FiniteSets, TLC

VARIABLES dir, crashed, calls, log, last

vars == <<dir, crashed, calls, log, last>>

(***************************************************************************)
(* Bounds of the model.                                                    *)
(***************************************************************************)
\* Records per entry block.  The source's BLOCK_SIZE is 4096, which gives 15
\* records per block; the model keeps the layout arithmetic and shrinks the
\* block so that a block fills after BlockRecords inserts.
BlockRecords == 2

\* Number of insert_file calls explored.
MaxInserts == 3

(***************************************************************************)
(* Layout constants.                                                       *)
(***************************************************************************)
MAX_FILENAME == 255

\* sizeof(struct block_header): three uint32_t.
sizeof_block_header == 12

\* sizeof(struct dir_entry): 4 + 2 + 1 + 1 + 255 = 263 bytes of members,
\* rounded up to the 4-byte alignment of uint32_t: name[255] is followed by
\* one byte of padding.
sizeof_dir_entry == 264

\* sizeof(struct index_entry): two uint32_t.
sizeof_index_entry == 8

BLOCK_SIZE == sizeof_block_header + BlockRecords * sizeof_dir_entry

MAX_ENTRIES_PER_BLOCK == (BLOCK_SIZE - sizeof_block_header) \div sizeof_dir_entry

MAX_INDEX_ENTRIES == (BLOCK_SIZE - sizeof_block_header) \div sizeof_index_entry

(***************************************************************************)
(* Names.  A name is a C string, bytes 1..255 up to the NUL that ends it.  *)
(* It is held as its runs of equal bytes, <<[b |-> 97, n |-> 255]>> for    *)
(* 255 times 'a': consecutive runs have different bytes and every run is   *)
(* non-empty, so two names are the same string iff they are equal.         *)
(***************************************************************************)
Run(b, n) == [b |-> b, n |-> n]

\* "ab" and "bA" have the same hash (33*97 + 98 = 33*98 + 65).
NameAB == <<Run(97, 1), Run(98, 1)>>
NameBA == <<Run(98, 1), Run(65, 1)>>
NameMissing == <<Run(109, 1)>>
Name255 == <<Run(97, 255)>>
Name300 == <<Run(97, 300)>>

InsertNames == {NameAB, NameBA, Name255, Name300}
FindNames == InsertNames \cup {NameMissing}
Inodes == {1001, 1002}

\* Outcomes of the two allocations of add_entry_block.
AllocOutcomes == {"ok", "realloc_null", "malloc_null"}

\* Content of the padding byte that follows name[255] in a slot of a block
\* obtained from malloc: the block is never cleared, so the byte is
\* indeterminate.  0, or a value that occurs in no name of the model.
PadBytes == {0, 1}

\* The bytes of a name, one by one.
RECURSIVE Bytes(_)
Bytes(name) ==
    IF name = <<>> THEN <<>>
    ELSE [i \in 1..name[1].n |-> name[1].b] \o Bytes(Tail(name))

(***************************************************************************)
(* libc string functions on names.                                         *)
(***************************************************************************)
RECURSIVE strlen(_)
strlen(name) == IF name = <<>> THEN 0 ELSE name[1].n + strlen(Tail(name))

\* The first n bytes of name.
RECURSIVE Prefix(_, _)
Prefix(name, n) ==
    IF name = <<>> \/ n = 0 THEN <<>>
    ELSE IF name[1].n >= n THEN <<Run(name[1].b, n)>>
    ELSE <<name[1]>> \o Prefix(Tail(name), n - name[1].n)

\* strncpy(dst, name, n): the bytes of the array dst that precede its first
\* NUL.  A name shorter than n is copied whole and NUL-filled; a name of n
\* bytes or more fills the array and leaves it without a terminator.
strncpy(name, n) == IF strlen(name) < n THEN name ELSE Prefix(name, n)

\* strcmp(entry->name, name) == 0.  When the array holds MAX_FILENAME bytes
\* and no NUL, strcmp runs off its end into the padding byte of the slot: a
\* zero there ends the stored string at MAX_FILENAME bytes; a PadBytes value
\* other than zero is a byte that no name of the model has at that place, and
\* the comparison ends there as unequal.
strcmp_eq(entry, name) ==
    IF strlen(entry.name) < MAX_FILENAME \/ entry.pad = 0
    THEN entry.name = name
    ELSE FALSE

(***************************************************************************)
(* uint32_t arithmetic.  A uint32_t is held as its two 16-bit halves, so   *)
(* that every intermediate value stays a small integer.                    *)
(***************************************************************************)
U32(hi, lo) == [hi |-> hi, lo |-> lo]

\* a + b, modulo 2^32.
U32Add(a, b) ==
    LET lo == a.lo + b.lo
    IN U32((a.hi + b.hi + lo \div 65536) % 65536, lo % 65536)

\* a << 5, the bits shifted past bit 31 dropped.
U32Shl5(a) ==
    LET lo == a.lo * 32
    IN U32((a.hi * 32 + lo \div 65536) % 65536, lo % 65536)

\* The operand *name of the addition: a char promoted to int and converted to
\* uint32_t.  Whether char is signed is the build's choice; a signed char
\* holds a byte b >= 0x80 as b - 256, which converts to 2^32 + b - 256.
CharToU32(b, char_signed) ==
    IF char_signed /\ b >= 128 THEN U32(65535, 65280 + b) ELSE U32(0, b)

\* while (*name) { hash = (hash << 5) + hash + *name; name++; }
RECURSIVE HashLoop(_, _, _, _)
HashLoop(hash, name, k, char_signed) ==
    IF k > Len(name) THEN hash
    ELSE LET next == U32Add(U32Add(U32Shl5(hash), hash),
                            CharToU32(name[k], char_signed))
         IN \* the test only makes TLC compute next before it goes on
            IF next.lo >= 0 THEN HashLoop(next, name, k + 1, char_signed)
            ELSE next

hash_filename(name, char_signed) == HashLoop(U32(0, 0), name, 1, char_signed)

(***************************************************************************)
(* Blocks and the directory.                                               *)
(***************************************************************************)
NewHeader(type) ==
    [block_type |-> type, entry_count |-> 0,
     free_space |-> BLOCK_SIZE - sizeof_block_header]

\* dir->entry_blocks is a pointer to an array of block pointers: null says
\* whether the pointer is NULL, at holds the blocks the array points to.
init_htree_directory ==
    [root_block |-> [header |-> NewHeader(1), indices |-> <<>>],
     index_blocks |-> [null |-> TRUE, at |-> <<>>],
     entry_blocks |-> [null |-> TRUE, at |-> <<>>],
     num_index_blocks |-> 0,
     num_entry_blocks |-> 0]

NewEntryBlock == [header |-> NewHeader(3), entries |-> <<>>]

\* add_entry_block(dir) under an allocation outcome: the directory it leaves.
\* The function returns NULL unless alloc = "ok".
add_entry_block(d, alloc) ==
    CASE alloc = "realloc_null" ->
           \* num_entry_blocks++ stays; realloc's NULL overwrites the pointer
           [d EXCEPT !.num_entry_blocks = @ + 1,
                     !.entry_blocks = [null |-> TRUE, at |-> <<>>]]
      [] alloc = "malloc_null" ->
           \* the array was grown, num_entry_blocks-- undoes the increment
           [d EXCEPT !.entry_blocks = [null |-> FALSE, at |-> @.at]]
      [] OTHER ->
           [d EXCEPT !.num_entry_blocks = @ + 1,
                     !.entry_blocks =
                         [null |-> FALSE, at |-> Append(@.at, NewEntryBlock)]]

\* Variants of HasRoom with the comparison off by one, either way.
HasRoom_le(block) == block.header.entry_count <= MAX_ENTRIES_PER_BLOCK

HasRoom_early(block) == block.header.entry_count < MAX_ENTRIES_PER_BLOCK - 1

\* The test of find_entry_block's loop.
HasRoom(block) == block.header.entry_count < MAX_ENTRIES_PER_BLOCK

\* The loops of find_entry_block and find_file read dir->entry_blocks[i] for
\* i < num_entry_blocks: a NULL array with num_entry_blocks > 0 is a NULL
\* dereference.
DerefsNull(d) == d.entry_blocks.null /\ d.num_entry_blocks > 0

\* Variant of FirstWithRoom whose loop starts at the second block.
FirstWithRoom_skip(d) ==
    LET S == {i \in 2..d.num_entry_blocks : HasRoom(d.entry_blocks.at[i])}
    IN IF S = {} THEN 0 ELSE CHOOSE i \in S : \A j \in S : i <= j

\* find_entry_block's loop: index of the first block with room, 0 when the
\* loop ends without one (add_entry_block is then called).
FirstWithRoom(d) ==
    LET S == {i \in 1..d.num_entry_blocks : HasRoom(d.entry_blocks.at[i])}
    IN IF S = {} THEN 0 ELSE CHOOSE i \in S : \A j \in S : i <= j

\* The slot insert_file writes.
NewEntry(name, inode, pad) ==
    [inode |-> inode,
     rec_len |-> sizeof_dir_entry,
     name_len |-> strlen(name) % 256,
     file_type |-> 1,
     name |-> strncpy(name, MAX_FILENAME),
     pad |-> pad]

\* Variant of WriteEntry that leaves free_space as it was.
WriteEntry_nofree(block, entry) ==
    [header |-> [block.header EXCEPT !.entry_count = @ + 1],
     entries |-> [i \in 1..(block.header.entry_count + 1) |->
                    IF i = block.header.entry_count + 1 THEN entry
                    ELSE block.entries[i]]]

\* entries[entry_count] = entry; entry_count++; free_space -= sizeof(entry).
\* free_space is the uint32_t field read as a two's-complement number.
WriteEntry(block, entry) ==
    [header |-> [block.header EXCEPT
                    !.entry_count = @ + 1,
                    !.free_space = @ - sizeof_dir_entry],
     entries |-> [i \in 1..(block.header.entry_count + 1) |->
                    IF i = block.header.entry_count + 1 THEN entry
                    ELSE block.entries[i]]]

\* find_file's two loops: the first <<block, slot>> in scan order whose stored
\* name compares equal, <<0, 0>> for NULL.
find_file(d, name) ==
    LET Hits == {p \in (1..d.num_entry_blocks) \X (1..MAX_ENTRIES_PER_BLOCK + 1) :
                    /\ p[2] <= d.entry_blocks.at[p[1]].header.entry_count
                    /\ strcmp_eq(d.entry_blocks.at[p[1]].entries[p[2]], name)}
    IN IF Hits = {} THEN <<0, 0>>
       ELSE CHOOSE p \in Hits :
              \A q \in Hits : p[1] < q[1] \/ (p[1] = q[1] /\ p[2] <= q[2])

EntryAt(d, p) == d.entry_blocks.at[p[1]].entries[p[2]]

\* The entry blocks whose records find_file's loops read: every block up to
\* the one that holds the hit, all of them when there is none.
Scanned(d, name) ==
    IF find_file(d, name) = <<0, 0>> THEN 1..d.num_entry_blocks
    ELSE 1..find_file(d, name)[1]

NoOp == [op |-> "none"]

(***************************************************************************)
(* Operations.                                                             *)
(***************************************************************************)
Init ==
    /\ dir = init_htree_directory
    /\ crashed = FALSE
    /\ calls = 0
    /\ log = <<>>
    /\ last = NoOp

\* insert_file(dir, name, inode).  last records the call, its outcome, the
\* slot written and the directory as it was before the call.  alloc is the
\* outcome of the allocations of add_entry_block when it is called; pad is the content of the padding byte
\* of the slot written, read only when the stored name has no terminator.
insert_file(name, inode, alloc, pad) ==
    /\ ~crashed
    /\ calls < MaxInserts
    /\ calls' = calls + 1
    /\ IF DerefsNull(dir)
       THEN /\ crashed' = TRUE
            /\ last' = [op |-> "insert", name |-> name, inode |-> inode,
                        result |-> "crash", at |-> <<0, 0>>, pre |-> dir]
            /\ UNCHANGED <<dir, log>>
       ELSE LET i == FirstWithRoom(dir)
                d1 == IF i = 0 THEN add_entry_block(dir, alloc) ELSE dir
                b == IF i # 0 THEN i
                     ELSE IF alloc = "ok" THEN d1.num_entry_blocks ELSE 0
            IN /\ crashed' = FALSE
               /\ IF b = 0
                  THEN \* if (!block) return;
                       /\ dir' = d1
                       /\ log' = log
                       /\ last' = [op |-> "insert", name |-> name,
                                   inode |-> inode, result |-> "noblock",
                                   at |-> <<0, 0>>, pre |-> dir]
                  ELSE LET slot == d1.entry_blocks.at[b].header.entry_count + 1
                           e == NewEntry(name, inode, pad)
                       IN /\ dir' = [d1 EXCEPT !.entry_blocks.at[b] =
                                                  WriteEntry(@, e)]
                          /\ log' = Append(log, [name |-> name, inode |-> inode,
                                                 at |-> <<b, slot>>])
                          /\ last' = [op |-> "insert", name |-> name,
                                      inode |-> inode, result |-> "ok",
                                      at |-> <<b, slot>>, pre |-> dir]

\* The allocations happen only when find_entry_block reaches add_entry_block.
CallsAdd(d) == ~DerefsNull(d) /\ FirstWithRoom(d) = 0

InsertFile ==
    \E name \in InsertNames, inode \in Inodes :
      \E alloc \in (IF CallsAdd(dir) THEN AllocOutcomes ELSE {"ok"}),
         pad \in (IF strlen(name) >= MAX_FILENAME THEN PadBytes ELSE {0}) :
        insert_file(name, inode, alloc, pad)

\* find_file(dir, name).
FindFile ==
    \E name \in FindNames :
      /\ ~crashed
      /\ IF DerefsNull(dir)
         THEN /\ crashed' = TRUE
              /\ last' = [op |-> "find", name |-> name, result |-> "crash",
                          at |-> <<0, 0>>, scanned |-> {}]
         ELSE /\ crashed' = FALSE
              /\ last' = [op |-> "find", name |-> name,
                          result |-> IF find_file(dir, name) = <<0, 0>>
                                     THEN "NULL" ELSE "entry",
                          at |-> find_file(dir, name),
                          scanned |-> Scanned(dir, name)]
      /\ UNCHANGED <<dir, calls, log>>

\* The counters the benchmark reads for its report.
Stats ==
    /\ ~crashed
    /\ last' = [op |-> "stats",
                entry_block_count |-> dir.num_entry_blocks,
                index_block_count |-> dir.num_index_blocks]
    /\ UNCHANGED <<dir, crashed, calls, log>>

Next == InsertFile \/ FindFile \/ Stats

Spec == Init /\ [][Next]_vars

(***************************************************************************)
(* hash_filename on its own: a call with a name of HashNames, in a build   *)
(* with signed or with unsigned char.                                      *)
(***************************************************************************)
HashBytes == {1, 97, 128, 255}

MaxHashLen == 3

HashNames ==
    UNION {[1..n -> HashBytes] : n \in 1..MaxHashLen}
      \cup {Bytes(NameAB), Bytes(NameBA), Bytes(<<Run(97, 20)>>),
            Bytes(<<Run(255, 8)>>), Bytes(<<Run(200, 40)>>)}

HashFilename ==
    \E name \in HashNames, char_signed \in BOOLEAN :
      /\ last' = [op |-> "hash", name |-> name, char_signed |-> char_signed,
                  result |-> hash_filename(name, char_signed)]
      /\ UNCHANGED <<dir, crashed, calls, log>>

SpecHash == Init /\ [][HashFilename]_vars

(***************************************************************************)
(* The binary-tree directory (binary_tree_implementation.c).  dir.heap     *)
(* holds the struct btree_node objects in the order they were allocated; a *)
(* pointer to a node is its index in heap, 0 is NULL.                      *)
(***************************************************************************)
\* 254 times 'a', the longest name that create_node's strncpy terminates.
Name254 == <<Run(97, MAX_FILENAME - 1)>>

\* "", "a", "ab", 254 times 'a', and a name whose byte is above 0x7F.
BtreeNames == {<<>>, <<Run(97, 1)>>, NameAB, Name254, <<Run(200, 1)>>}

BtreeFindNames == BtreeNames \cup {<<Run(98, 1)>>}

MallocOutcomes == {"ok", "malloc_null"}

\* strcmp(a, b) of two terminated strings: the sign of the difference of the
\* first bytes that differ, taken as unsigned char, the terminator being 0.
RECURSIVE strcmp(_, _)
strcmp(a, b) ==
    IF a = <<>> /\ b = <<>> THEN 0
    ELSE IF a = <<>> THEN -1
    ELSE IF b = <<>> THEN 1
    ELSE IF a[1].b # b[1].b THEN (IF a[1].b < b[1].b THEN -1 ELSE 1)
    ELSE LET m == IF a[1].n < b[1].n THEN a[1].n ELSE b[1].n
             Rest(x) == IF x[1].n = m THEN Tail(x)
                        ELSE <<Run(x[1].b, x[1].n - m)>> \o Tail(x)
         IN strcmp(Rest(a), Rest(b))

init_btree_directory == [root |-> 0, size |-> 0, heap |-> <<>>]

create_node(name, inode) ==
    [inode |-> inode, name |-> strncpy(name, MAX_FILENAME),
     left |-> 0, right |-> 0]

\* insert_file_recursive(node, name, inode): <<the heap it leaves, the pointer
\* it returns>>.
RECURSIVE insert_file_recursive(_, _, _, _)
insert_file_recursive(heap, node, name, inode) ==
    IF node = 0
    THEN <<Append(heap, create_node(name, inode)), Len(heap) + 1>>
    ELSE LET cmp == strcmp(name, heap[node].name)
         IN IF cmp < 0
            THEN LET r == insert_file_recursive(heap, heap[node].left, name, inode)
                 IN <<[r[1] EXCEPT ![node].left = r[2]], node>>
            ELSE IF cmp > 0
            THEN LET r == insert_file_recursive(heap, heap[node].right, name, inode)
                 IN <<[r[1] EXCEPT ![node].right = r[2]], node>>
            ELSE <<heap, node>>

\* The loop of find_file from current: the node found, 0 for NULL.
RECURSIVE FindFrom(_, _, _)
FindFrom(heap, current, name) ==
    IF current = 0 THEN 0
    ELSE LET cmp == strcmp(name, heap[current].name)
         IN IF cmp = 0 THEN current
            ELSE IF cmp < 0 THEN FindFrom(heap, heap[current].left, name)
            ELSE FindFrom(heap, heap[current].right, name)

btree_find_file(d, name) == FindFrom(d.heap, d.root, name)

InitBtree ==
    /\ dir = init_btree_directory
    /\ crashed = FALSE
    /\ calls = 0
    /\ log = <<>>
    /\ last = NoOp

\* insert_file(dir, name, inode) of the binary tree.  malloc is called only
\* when the descent reaches NULL, that is when the name is not in the tree;
\* create_node writes through the pointer malloc returned without testing it.
btree_insert_file(name, inode, alloc) ==
    /\ ~crashed
    /\ calls < MaxInserts
    /\ calls' = calls + 1
    /\ IF alloc = "malloc_null"
       THEN /\ crashed' = TRUE
            /\ last' = [op |-> "insert", name |-> name, inode |-> inode,
                        result |-> "crash"]
            /\ UNCHANGED <<dir, log>>
       ELSE LET r == insert_file_recursive(dir.heap, dir.root, name, inode)
            IN /\ crashed' = FALSE
               /\ dir' = [root |-> r[2], size |-> dir.size + 1, heap |-> r[1]]
               /\ log' = Append(log, [name |-> name, inode |-> inode])
               /\ last' = [op |-> "insert", name |-> name, inode |-> inode,
                           result |-> "ok"]

BtreeInsertFile ==
    \E name \in BtreeNames, inode \in Inodes :
      \E alloc \in (IF btree_find_file(dir, name) = 0 THEN MallocOutcomes
                     ELSE {"ok"}) :
        btree_insert_file(name, inode, alloc)

BtreeFindFile ==
    \E name \in BtreeFindNames :
      /\ ~crashed
      /\ last' = [op |-> "find", name |-> name,
                  result |-> btree_find_file(dir, name)]
      /\ UNCHANGED <<dir, crashed, calls, log>>

NextBtree == BtreeInsertFile \/ BtreeFindFile

SpecBtree == InitBtree /\ [][NextBtree]_vars

(***************************************************************************)
(* Properties.                                                             *)
(***************************************************************************)
Blocks(d) == d.entry_blocks.at

\* The sum of entry_count over the entry blocks.
RECURSIVE SumCounts(_, _)
SumCounts(blocks, n) ==
    IF n = 0 THEN 0 ELSE blocks[n].header.entry_count + SumCounts(blocks, n - 1)

total_entries(d) == SumCounts(Blocks(d), Len(Blocks(d)))

InsertDone == last.op = "insert" /\ last.result = "ok"

\* The inserts logged with this name, in the order they were made.
LoggedAs(name) == {k \in 1..Len(log) : log[k].name = name}

\* C1: after an insert of a valid name (at most 255 bytes) that stored its
\* record, find_file of that name returns a record and its inode is the inode
\* just inserted.
C1_RoundTrip ==
    (InsertDone /\ strlen(last.name) <= MAX_FILENAME) =>
        /\ find_file(dir, last.name) # <<0, 0>>
        /\ EntryAt(dir, find_file(dir, last.name)).inode = last.inode

\* C2: an insert of a name longer than 255 bytes is rejected with NameTooLong
\* and leaves the directory as it was before the call.
C2_NameTooLong ==
    (last.op = "insert" /\ strlen(last.name) > MAX_FILENAME) =>
        /\ last.result = "NameTooLong"
        /\ dir = last.pre

\* C3: an insert either commits (the record is in the slot it reports, the
\* header of that block counts it) or leaves num_entry_blocks, the sequence of
\* entry blocks and their records as they were; an allocation failure inside
\* add_entry_block is of the second kind.
C3_CommitOrAbort ==
    (last.op = "insert" /\ last.result # "crash") =>
        IF last.result = "ok"
        THEN /\ last.at[1] \in 1..Len(Blocks(dir))
             /\ Blocks(dir)[last.at[1]].header.entry_count = last.at[2]
             /\ EntryAt(dir, last.at).inode = last.inode
             /\ dir.num_entry_blocks = Len(Blocks(dir))
        ELSE /\ dir.num_entry_blocks = last.pre.num_entry_blocks
             /\ Blocks(dir) = Blocks(last.pre)

\* C4: once an entry block exists, the index records of the root block start
\* at hash 0, are strictly increasing by hash, and each names an existing entry
\* block, so that every 32-bit hash falls in exactly one range.
C4_Partition ==
    LET idx == dir.root_block.indices
        Below(a, b) == a.hi < b.hi \/ (a.hi = b.hi /\ a.lo < b.lo)
    IN Len(Blocks(dir)) >= 1 =>
        /\ dir.root_block.header.entry_count = Len(idx)
        /\ Len(idx) >= 1
        /\ idx[1].hash = U32(0, 0)
        /\ \A i \in 1..(Len(idx) - 1) : Below(idx[i].hash, idx[i + 1].hash)
        /\ \A i \in 1..Len(idx) : idx[i].block_number < dir.num_entry_blocks

\* C5: every block satisfies entry_count * record_size + header_size <=
\* block_size: the root block for index records, every entry block for
\* directory entries (so none holds more than MAX_ENTRIES_PER_BLOCK), and the
\* slot an insert writes has a C index below MAX_ENTRIES_PER_BLOCK.
C5_Capacity ==
    /\ dir.root_block.header.entry_count * sizeof_index_entry
           + sizeof_block_header <= BLOCK_SIZE
    /\ \A i \in 1..Len(Blocks(dir)) :
         /\ Blocks(dir)[i].header.entry_count * sizeof_dir_entry
                + sizeof_block_header <= BLOCK_SIZE
         /\ Blocks(dir)[i].header.entry_count <= MAX_ENTRIES_PER_BLOCK
         /\ Len(Blocks(dir)[i].entries) <= MAX_ENTRIES_PER_BLOCK
    /\ InsertDone => last.at[2] - 1 < MAX_ENTRIES_PER_BLOCK

\* A block was filled, and the insert that followed went to a second block.
C5_Witness ==
    /\ InsertDone
    /\ Len(Blocks(dir)) = 2
    /\ Blocks(dir)[1].header.entry_count = MAX_ENTRIES_PER_BLOCK
    /\ last.at = <<2, 1>>

\* C6: with k records per block, n stored inserts leave ceil(n / k) entry
\* blocks (one after the first insert, still one after insert k, two after
\* insert k + 1); an insert adds at most one block, and adds one exactly when
\* every block it looked at was full.  The general count is read in the states
\* where the block array can be read (see C3 for the others); the counts after
\* the first and after insert k + 1 hold in every state.
C6_AllocTiming ==
    /\ Len(log) = 1 => dir.num_entry_blocks = 1
    /\ Len(log) = MAX_ENTRIES_PER_BLOCK + 1 => dir.num_entry_blocks = 2
    /\ ~DerefsNull(dir) =>
         /\ dir.num_entry_blocks = Len(Blocks(dir))
         /\ dir.num_entry_blocks =
              (Len(log) + MAX_ENTRIES_PER_BLOCK - 1) \div MAX_ENTRIES_PER_BLOCK
    /\ (last.op = "insert" /\ last.result # "crash") =>
         Len(Blocks(dir)) <= Len(Blocks(last.pre)) + 1
    /\ InsertDone =>
         (Len(Blocks(dir)) = Len(Blocks(last.pre)) + 1
            <=> \A i \in 1..Len(Blocks(last.pre)) :
                  Blocks(last.pre)[i].header.entry_count = MAX_ENTRIES_PER_BLOCK)

\* Insert k + 1 has just allocated the second block.
C6_Witness ==
    /\ InsertDone
    /\ Len(log) = MAX_ENTRIES_PER_BLOCK + 1
    /\ dir.num_entry_blocks = 2
    /\ Len(Blocks(last.pre)) = 1

\* C7: a find of a name that was never inserted returns NULL, also when the
\* name's hash equals a stored name's hash, and a find that returns a record
\* returns one whose stored name is the name asked for.
C7_FindAbsent ==
    (last.op = "find" /\ last.result # "crash") =>
        /\ LoggedAs(last.name) = {} => last.result = "NULL"
        /\ last.result = "entry" => EntryAt(dir, last.at).name = last.name

\* C8: a valid name inserted twice has two records (every stored insert adds
\* one to total_entries), and find_file of it returns the earlier of them.
C8_Duplicates ==
    \A name \in InsertNames :
      (/\ ~DerefsNull(dir)
       /\ strlen(name) <= MAX_FILENAME
       /\ Cardinality(LoggedAs(name)) >= 2) =>
          /\ total_entries(dir) = Len(log)
          /\ find_file(dir, name) =
               log[CHOOSE k \in LoggedAs(name) :
                     \A j \in LoggedAs(name) : k <= j].at

\* h := (h * 33 + b) mod 2^32 over the bytes of name as unsigned values,
\* from h = 0.
RECURSIVE Fold33(_, _, _)
Fold33(h, name, k) ==
    IF k > Len(name) THEN h
    ELSE LET lo == h.lo * 33 + name[k]
             next == U32((h.hi * 33 + lo \div 65536) % 65536, lo % 65536)
         IN IF next.lo >= 0 THEN Fold33(next, name, k + 1) ELSE next

\* C9: hash_filename(name) is the fold h := (h * 33 + b) mod 2^32 over the
\* bytes of name taken as unsigned values 0..255, for every byte sequence,
\* also with bytes >= 0x80, and whatever the build.
C9_HashFold ==
    last.op = "hash" => last.result = Fold33(U32(0, 0), last.name, 1)

\* C10: total_entries, the sum of entry_count over the entry blocks, is the
\* number of inserts that stored their record.
C10_Accounting == total_entries(dir) = Len(log)

\* C11: a find_file call reads the records of one entry block only (the
\* block routing selects for the hash of the name) and of no other block.
C11_SingleBlock ==
    (last.op = "find" /\ last.result # "crash") =>
        Cardinality(last.scanned) <= 1

\* The block that routing selects for hash h: the block_number of the last
\* index record of the root block whose hash is <= h, as an index into the
\* entry blocks counted from 1; 0 when the root block has no such record.
Route(d, h) ==
    LET idx == d.root_block.indices
        S == {i \in 1..Len(idx) :
                idx[i].hash.hi < h.hi
                  \/ (idx[i].hash.hi = h.hi /\ idx[i].hash.lo <= h.lo)}
    IN IF S = {} THEN 0
       ELSE idx[CHOOSE i \in S : \A j \in S : j <= i].block_number + 1

\* C12: every stored record lies in the entry block that routing selects for
\* the hash of its name, also after an insert that found every block full and
\* allocated a new one.
C12_PlacementFollowsRouting ==
    \A p \in (1..Len(Blocks(dir))) \X (1..MAX_ENTRIES_PER_BLOCK) :
      p[2] <= Blocks(dir)[p[1]].header.entry_count =>
        \A char_signed \in BOOLEAN :
          Route(dir, hash_filename(Bytes(EntryAt(dir, p).name), char_signed))
            = p[1]

\* C13: a fresh directory has a root block without index records and no
\* entry or index blocks, and in every state the root block's entry_count is
\* the number of entry blocks, each entry block being named by exactly one
\* index record.
C13_IndexInStep ==
    /\ (calls = 0) =>
          /\ dir.root_block.header.entry_count = 0
          /\ dir.num_entry_blocks = 0
          /\ dir.num_index_blocks = 0
    /\ dir.root_block.header.entry_count = Len(Blocks(dir))
    /\ \A b \in 1..Len(Blocks(dir)) :
          Cardinality({i \in 1..Len(dir.root_block.indices) :
                         dir.root_block.indices[i].block_number + 1 = b}) = 1

\* C14: the header of every block satisfies free_space = (block size - header
\* size) - entry_count * record size, with index records in the root block
\* and directory entries in the entry blocks, and free_space is never below 0
\* (the uint32_t field never wraps).
C14_HeaderConsistency ==
    /\ dir.root_block.header.free_space =
           (BLOCK_SIZE - sizeof_block_header)
             - dir.root_block.header.entry_count * sizeof_index_entry
    /\ dir.root_block.header.free_space >= 0
    /\ \A i \in 1..Len(Blocks(dir)) :
         /\ Blocks(dir)[i].header.free_space =
                (BLOCK_SIZE - sizeof_block_header)
                  - Blocks(dir)[i].header.entry_count * sizeof_dir_entry
         /\ Blocks(dir)[i].header.free_space >= 0

\* An insert has just written the last slot of a block, whose free_space is
\* now below the size of a record.
C14_Witness ==
    /\ InsertDone
    /\ last.at[2] = MAX_ENTRIES_PER_BLOCK
    /\ Blocks(dir)[last.at[1]].header.free_space < sizeof_dir_entry
    /\ Blocks(last.pre)[last.at[1]].header.free_space >= sizeof_dir_entry

\* C15: an insert changes only the slot it appends to and the header of that
\* block: every record stored before the call is still in its block at its
\* position with its fields, the number of entry blocks does not decrease and
\* no entry_count decreases.
C15_AppendOnly ==
    (last.op = "insert" /\ last.result # "crash") =>
        /\ dir.num_entry_blocks >= last.pre.num_entry_blocks
        /\ Len(Blocks(dir)) >= Len(Blocks(last.pre))
        /\ dir.root_block = last.pre.root_block
        /\ \A b \in 1..Len(Blocks(last.pre)) :
             /\ b <= Len(Blocks(dir))
             /\ Blocks(dir)[b].header.entry_count
                    >= Blocks(last.pre)[b].header.entry_count
             /\ \A s \in 1..Blocks(last.pre)[b].header.entry_count :
                    Blocks(dir)[b].entries[s] = Blocks(last.pre)[b].entries[s]
             /\ (last.result = "noblock" \/ b # last.at[1]) =>
                    Blocks(dir)[b] = Blocks(last.pre)[b]
        /\ total_entries(dir) <= total_entries(last.pre) + 1

\* C16: when no allocation has failed (every insert_file call stored its
\* record), n inserts into a fresh directory with k records per block leave
\* ceil(n / k) entry blocks, all full but the last, which holds 1..k records,
\* and the i-th inserted record is in block (i - 1) div k at slot
\* (i - 1) mod k (both counted from 0), whatever the names.
C16_FirstFit ==
    LET n == Len(log)
        k == MAX_ENTRIES_PER_BLOCK
        nb == Len(Blocks(dir))
    IN (calls = n) =>
        /\ nb = (n + k - 1) \div k
        /\ dir.num_entry_blocks = nb
        /\ \A b \in 1..nb :
             /\ b < nb => Blocks(dir)[b].header.entry_count = k
             /\ b = nb => Blocks(dir)[b].header.entry_count = n - (nb - 1) * k
             /\ Blocks(dir)[b].header.entry_count \in 1..k
        /\ \A i \in 1..n :
             /\ log[i].at = <<((i - 1) \div k) + 1, ((i - 1) % k) + 1>>
             /\ EntryAt(dir, log[i].at).inode = log[i].inode
             /\ EntryAt(dir, log[i].at).name = strncpy(log[i].name, MAX_FILENAME)

\* k + 1 inserts, none failed, of names that are not all the same: the last
\* one is the first record of the second block.
C16_Witness ==
    /\ calls = Len(log)
    /\ Len(log) = MAX_ENTRIES_PER_BLOCK + 1
    /\ log[Len(log)].at = <<2, 1>>
    /\ log[1].name # log[Len(log)].name
    /\ Len(Blocks(dir)) = 2

\* The nodes of the subtree whose root is node.
RECURSIVE Subtree(_, _)
Subtree(heap, node) ==
    IF node = 0 THEN {}
    ELSE {node} \cup Subtree(heap, heap[node].left)
                \cup Subtree(heap, heap[node].right)

TreeNodes(d) == Subtree(d.heap, d.root)

\* Every node's name is greater than the names of its left subtree and
\* smaller than the names of its right subtree.
IsSearchTree(d) ==
    \A n \in TreeNodes(d) :
      /\ \A m \in Subtree(d.heap, d.heap[n].left) :
            strcmp(d.heap[m].name, d.heap[n].name) < 0
      /\ \A m \in Subtree(d.heap, d.heap[n].right) :
            strcmp(d.heap[m].name, d.heap[n].name) > 0

\* The nodes of the tree that carry this name.
NodesNamed(d, name) == {n \in TreeNodes(d) : d.heap[n].name = name}

\* One node per inserted name, with the inode of the name's first insert, and
\* none for any other name.
OneNodePerName(d) ==
    /\ \A n \in TreeNodes(d) : LoggedAs(d.heap[n].name) # {}
    /\ \A name \in BtreeNames :
         LoggedAs(name) # {} =>
           /\ Cardinality(NodesNamed(d, name)) = 1
           /\ \A n \in NodesNamed(d, name) :
                d.heap[n].inode =
                  log[CHOOSE k \in LoggedAs(name) :
                        \A j \in LoggedAs(name) : k <= j].inode

\* find_file returns the node of every inserted name and NULL for the others.
FindsInserted(d) ==
    \A name \in BtreeFindNames :
      IF LoggedAs(name) = {} THEN btree_find_file(d, name) = 0
      ELSE btree_find_file(d, name) \in NodesNamed(d, name)

\* C17: after any sequence of insert_file calls of the binary-tree directory
\* with names shorter than 255 bytes, the tree is a search tree over names,
\* has one node per distinct inserted name with the inode of the first insert
\* of that name, find_file returns that node for an inserted name and NULL
\* for any other, and dir->size is the number of nodes of the tree.
C17_BtreeDirectory ==
    /\ IsSearchTree(dir)
    /\ OneNodePerName(dir)
    /\ FindsInserted(dir)
    /\ dir.size = Cardinality(TreeNodes(dir))

====
